---- MODULE Spec2Model ----
(***************************************************************************)
(* The CSV ingestion-and-load pipeline of cloud-functions/csv-processor:   *)
(* process_csv_content reads the records of one file, encodes each data    *)
(* row under a deterministic row key, writes the rows to the wide-column   *)
(* store in batches and finally writes one summary row.                    *)
(*                                                                         *)
(* Byte strings are sequences of character codes (ASCII), so that key      *)
(* order is the byte order the store sorts by.                             *)
(***************************************************************************)
EXTENDS Integers, Sequences, FiniteSets, TLC

(***************************************************************************)
(* Bounds.  BATCH_SIZE and MAX_ROWS stand for the program's 1000 and       *)
(* 1000000, scaled down so that every threshold is crossed.                *)
(***************************************************************************)
BATCH_SIZE == 2
MAX_ROWS == 3
MaxOrdinal == 24

\* a content holds at most one data row more than the row cap
MaxDataRows == MAX_ROWS + 1

Procs == {1, 2}

(***************************************************************************)
(* Byte-string literals of the program.                                    *)
(***************************************************************************)
b_underscore == <<95>>                                             \* "_"
b_summary_prefix == <<95, 115, 117, 109, 109, 97, 114, 121, 95>>   \* "_summary_"
b_row_number == <<114, 111, 119, 95, 110, 117, 109, 98, 101, 114>> \* "row_number"
b_file_hash == <<102, 105, 108, 101, 95, 104, 97, 115, 104>>       \* "file_hash"
b_source_file == <<115, 111, 117, 114, 99, 101, 95, 102, 105, 108, 101>> \* "source_file"
b_processed_at == <<112, 114, 111, 99, 101, 115, 115, 101, 100, 95, 97, 116>> \* "processed_at"
b_total_rows == <<116, 111, 116, 97, 108, 95, 114, 111, 119, 115>> \* "total_rows"
b_processed_rows == <<112, 114, 111, 99, 101, 115, 115, 101, 100, 95, 114, 111, 119, 115>> \* "processed_rows"
b_error_rows == <<101, 114, 114, 111, 114, 95, 114, 111, 119, 115>> \* "error_rows"
b_columns == <<99, 111, 108, 117, 109, 110, 115>>                  \* "columns"
b_status == <<115, 116, 97, 116, 117, 115>>                        \* "status"
b_completed == <<99, 111, 109, 112, 108, 101, 116, 101, 100>>      \* "completed"
b_column == <<99, 111, 108, 117, 109, 110>>                        \* "column"

(***************************************************************************)
(* Inputs: two file hashes (12 hex characters each, as generate_file_hash  *)
(* returns them), the blob names, the header and the sample records.       *)
(***************************************************************************)
HashA == <<51, 102, 50, 97, 57, 99, 48, 49, 98, 55, 100, 52>>      \* "3f2a9c01b7d4"
HashB == <<51, 102, 50, 97, 57, 99, 48, 49, 98, 55, 100, 53>>      \* "3f2a9c01b7d5"
BlobA == <<97, 46, 99, 115, 118>>                                  \* "a.csv"
BlobB == <<98, 46, 99, 115, 118>>                                  \* "b.csv"

Header == << <<110, 97, 109, 101>>, <<97, 103, 101>> >>            \* name,age
RecFull == << <<65, 110, 97>>, <<51, 48>> >>                       \* Ana,30
RecEmpty == << <<69, 118, 97>>, <<>> >>                            \* Eva,   (age is "")
RecShort == << <<69, 118, 97>> >>                                  \* Eva    (age missing)
RecExtra == << <<66, 111, 98>>, <<55>>, <<122, 122>> >>            \* Bob,7,zz (one field too many)

RecSamples == {RecFull, RecEmpty, RecShort, RecExtra}

\* all sequences over S of length 0..n
RECURSIVE SeqsUpTo(_, _)
SeqsUpTo(S, n) ==
  IF n = 0 THEN {<<>>}
  ELSE LET shorter == SeqsUpTo(S, n - 1)
       IN  shorter \cup {Append(s, x) : s \in {t \in shorter : Len(t) = n - 1}, x \in S}

(***************************************************************************)
(* Conversions.                                                            *)
(***************************************************************************)
\* str(n) for n >= 0: the decimal digits
RECURSIVE Str(_)
Str(n) == IF n < 10 THEN <<48 + n>> ELSE Append(Str(n \div 10), 48 + (n % 10))

\* n zeros
Zeros(n) == [i \in 1..n |-> 48]

\* format(n, "010d") for n >= 0: zero-filled to a minimum width of 10
RowNumberNoPad(row_number) == Str(row_number)

Format010d(row_number) ==
  LET digits == Str(row_number)
  IN  IF Len(digits) >= 10 THEN digits ELSE Zeros(10 - Len(digits)) \o digits

\* the row key without the file hash
generate_row_key_nohash(file_hash, row_number) == Format010d(row_number)

\* f"{file_hash}_{row_number:010d}"
generate_row_key(file_hash, row_number) ==
  file_hash \o b_underscore \o Format010d(row_number)

\* f"_summary_{file_hash}"
SummaryKey(file_hash) == b_summary_prefix \o file_hash

\* byte-wise lexicographic order, as the store sorts row keys
LexLess(a, b) ==
  \E i \in 1..(Len(a) + 1) :
    /\ i <= Len(b) + 1
    /\ \A j \in 1..(i - 1) : a[j] = b[j]
    /\ \/ i = Len(a) + 1 /\ i <= Len(b)
       \/ i <= Len(a) /\ i <= Len(b) /\ a[i] < b[i]

IsWordChar(c) ==
  \/ c \in 48..57
  \/ c \in 65..90
  \/ c \in 97..122
  \/ c = 95

IsSpaceChar(c) == c = 32 \/ c \in 9..13

KeepChar(c) == IsWordChar(c) \/ IsSpaceChar(c)

LowerChar(c) == IF c \in 65..90 THEN c + 32 ELSE c

sanitize_column_name(name) ==
  LET kept == SelectSeq(name, KeepChar)
      spaced == [i \in 1..Len(kept) |-> IF kept[i] = 32 THEN 95 ELSE kept[i]]
      lowered == [i \in 1..Len(spaced) |-> LowerChar(spaced[i])]
  IN  IF Len(lowered) = 0 THEN b_column
      ELSE IF Len(lowered) > 64 THEN SubSeq(lowered, 1, 64) ELSE lowered

\* timestamp.isoformat(): time is a count of ticks, rendered in decimal
IsoFormat(timestamp) == Str(timestamp)

\* json.dumps of a list of strings: ["a", "b"]
RECURSIVE JsonItems(_)
JsonItems(cols) ==
  IF Len(cols) = 0 THEN <<>>
  ELSE IF Len(cols) = 1 THEN <<34>> \o cols[1] \o <<34>>
  ELSE <<34>> \o cols[1] \o <<34, 44, 32>> \o JsonItems(Tail(cols))

JsonDumps(cols) == <<91>> \o JsonItems(cols) \o <<93>>

(***************************************************************************)
(* The record stream csv.DictReader yields.  A content is the sequence of  *)
(* its non-blank records, the header first; the empty content has none.    *)
(***************************************************************************)
Contents == {<<>>} \cup {<<Header>> \o rows : rows \in SeqsUpTo(RecSamples, MaxDataRows)}

\* reader.fieldnames: the first record, or nothing for an empty content
FieldnamesOrDefault(c) == IF Len(c) = 0 THEN Header ELSE c[1]

Fieldnames(c) == IF Len(c) = 0 THEN <<>> ELSE c[1]

Range(s) == {s[i] : i \in 1..Len(s)}

SetMax(S) == CHOOSE x \in S : \A y \in S : y <= x

SetMin(S) == CHOOSE x \in S : \A y \in S : x <= y

FirstIndex(fieldnames, o) == SetMin({i \in 1..Len(fieldnames) : fieldnames[i] = o})

LastIndex(fieldnames, o) == SetMax({i \in 1..Len(fieldnames) : fieldnames[i] = o})

\* the dict DictReader builds for one record: a missing field is None
\* (present = FALSE), surplus fields are collected under the key None (rest)
DictRow(fieldnames, rec) ==
  [fields |-> [o \in Range(fieldnames) |->
                 LET i == LastIndex(fieldnames, o)
                 IN  IF i <= Len(rec) THEN [present |-> TRUE, v |-> rec[i]]
                     ELSE [present |-> FALSE, v |-> <<>>]],
   rest |-> Len(rec) > Len(fieldnames)]

\* column_mapping = dict(zip(original_columns, columns))
ColumnMapping(original_columns) ==
  [o \in Range(original_columns) |-> sanitize_column_name(o)]

Columns(original_columns) ==
  [i \in 1..Len(original_columns) |-> sanitize_column_name(original_columns[i])]

EmptyMap == [x \in {} |-> 0]

\* the fields of a row that get a data cell: those whose value is not None
ValueBearingNonEmpty(row) ==
  {o \in DOMAIN row.fields : row.fields[o].present /\ Len(row.fields[o].v) > 0}

ValueBearing(row) == {o \in DOMAIN row.fields : row.fields[o].present}

\* the 'data' cells of a row; when two headers sanitize to one name the
\* later field of the row overwrites the earlier
DataCells(fieldnames, row) ==
  LET mapping == ColumnMapping(fieldnames)
      present == ValueBearing(row)
      quals == {mapping[o] : o \in present}
      last(q) == CHOOSE o \in present :
                   /\ mapping[o] = q
                   /\ \A o2 \in present :
                        mapping[o2] = q =>
                          FirstIndex(fieldnames, o2) <= FirstIndex(fieldnames, o)
  IN  [c \in {<<"data", q>> : q \in quals} |-> row.fields[last(c[2])].v]

\* the metadata cells with two values exchanged
MetadataCellsSwapped(row_number, file_hash, blob_name, timestamp) ==
  [c \in {<<"metadata", b_row_number>>, <<"metadata", b_file_hash>>,
          <<"metadata", b_source_file>>, <<"metadata", b_processed_at>>} |->
     IF c[2] = b_row_number THEN Str(row_number)
     ELSE IF c[2] = b_file_hash THEN file_hash
     ELSE IF c[2] = b_source_file THEN IsoFormat(timestamp)
     ELSE blob_name]

\* the four 'metadata' cells of a data row
MetadataCells(row_number, file_hash, blob_name, timestamp) ==
  [c \in {<<"metadata", b_row_number>>, <<"metadata", b_file_hash>>,
          <<"metadata", b_source_file>>, <<"metadata", b_processed_at>>} |->
     IF c[2] = b_row_number THEN Str(row_number)
     ELSE IF c[2] = b_file_hash THEN file_hash
     ELSE IF c[2] = b_source_file THEN blob_name
     ELSE IsoFormat(timestamp)]

\* encoding never throws
RowThrowsNever(row) == FALSE

\* encoding a row throws when the row carries the key None: the default
\* argument sanitize_column_name(None) is evaluated and raises
RowThrows(row) == row.rest

\* the row object built for one record (when encoding does not throw)
EncodeRow(fieldnames, rec, row_number, file_hash, blob_name, timestamp) ==
  [key |-> generate_row_key(file_hash, row_number),
   cells |-> DataCells(fieldnames, DictRow(fieldnames, rec))
               @@ MetadataCells(row_number, file_hash, blob_name, timestamp),
   ts |-> timestamp]

(***************************************************************************)
(* The store: row key -> cell -> latest version.  A cell written with a    *)
(* timestamp not older than the stored version becomes the value read.     *)
(***************************************************************************)
WriteRow(st, row) ==
  LET old == IF row.key \in DOMAIN st THEN st[row.key] ELSE EmptyMap
      new == [c \in DOMAIN row.cells |-> [v |-> row.cells[c], ts |-> row.ts]]
      merged == [c \in DOMAIN old \cup DOMAIN new |->
                   IF c \in DOMAIN new /\ (c \notin DOMAIN old \/ new[c].ts >= old[c].ts)
                   THEN new[c] ELSE old[c]]
  IN  [k \in DOMAIN st \cup {row.key} |-> IF k = row.key THEN merged ELSE st[k]]

\* table.mutate_rows(rows) when it succeeds
RECURSIVE MutateRows(_, _)
MutateRows(st, rows) ==
  IF Len(rows) = 0 THEN st ELSE MutateRows(WriteRow(st, Head(rows)), Tail(rows))

(***************************************************************************)
(* State.  Each invocation of process_csv_content has its own locals; the  *)
(* store and the clock are shared.                                         *)
(***************************************************************************)
VARIABLES
  store,       \* the table: row key -> cell -> [v, ts]
  clock,       \* the time datetime.utcnow() returns next
  pc,          \* where each invocation stands
  content,     \* argument: the records of the file
  file_hash,   \* argument
  blob_name,   \* argument
  timestamp,   \* local: taken once per run
  row_num,     \* local: ordinal of the row enumerated last
  stats,       \* local: the counters and the column list
  rows_batch,  \* local: the in-flight batch buffer
  result,      \* "none", "stats" (stats returned) or the error raised
  log,         \* the store writes the run attempted, in order
  rerun,       \* whether the file has been ingested again
  prev,        \* what the previous run of the same file left behind
  probe        \* a pair of ordinals and the row keys derived from them

vars == <<store, clock, pc, content, file_hash, blob_name, timestamp, row_num,
          stats, rows_batch, result, log, rerun, prev, probe>>

NoHeadersError == "ValueError: CSV no tiene encabezados"
WriteError == "store write failed"

ZeroStats ==
  [total_rows |-> 0, processed_rows |-> 0, error_rows |-> 0,
   batches_written |-> 0, columns |-> <<>>]

\* stats = {...} before the loop
InitStats(columns) ==
  [total_rows |-> 0, processed_rows |-> 0, error_rows |-> 0,
   batches_written |-> 0, columns |-> columns]

NoPrev ==
  [result |-> "none", store |-> EmptyMap, keys |-> {}, stats |-> ZeroStats,
   timestamp |-> 0, failures |-> FALSE]

NoProbe == [m |-> 0, n |-> 0, key_m |-> <<>>, key_n |-> <<>>, derived |-> FALSE]

BatchKeys(rows) == [i \in 1..Len(rows) |-> rows[i].key]

LogEntry(kind, rows, ok) == [kind |-> kind, rows |-> rows, ok |-> ok]

\* the keys a run has written successfully
KeysWritten(l) ==
  UNION {Range(BatchKeys(l[i].rows)) : i \in {j \in 1..Len(l) : l[j].ok}}

\* the keys a run has handed to the store, written or not
KeysAttempted(l) == UNION {Range(BatchKeys(l[i].rows)) : i \in 1..Len(l)}

AnyFailure(l) == \E i \in 1..Len(l) : ~l[i].ok

\* the buffer is flushed only when it exceeds the threshold
FlushDueLate(batch) == Len(batch) > BATCH_SIZE

\* if len(rows_batch) >= BATCH_SIZE
FlushDue(batch) == Len(batch) >= BATCH_SIZE

\* except Exception: stats['error_rows'] += 1
OnRowError(st) == [st EXCEPT !.error_rows = @ + 1]

\* the loop ends when the reader is exhausted or the row cap is passed
LoopFinished(p) ==
  \/ row_num[p] + 1 > Len(content[p]) - 1
  \/ row_num[p] + 1 > MAX_ROWS

\* the summary row with two counters exchanged
SummaryRowSwapped(fh, bn, st, ts) ==
  [key |-> SummaryKey(fh),
   cells |->
     [c \in {<<"metadata", b_file_hash>>, <<"metadata", b_source_file>>,
             <<"metadata", b_total_rows>>, <<"metadata", b_processed_rows>>,
             <<"metadata", b_error_rows>>, <<"metadata", b_columns>>,
             <<"metadata", b_processed_at>>, <<"metadata", b_status>>} |->
        IF c[2] = b_file_hash THEN fh
        ELSE IF c[2] = b_source_file THEN bn
        ELSE IF c[2] = b_total_rows THEN Str(st.total_rows)
        ELSE IF c[2] = b_processed_rows THEN Str(st.error_rows)
        ELSE IF c[2] = b_error_rows THEN Str(st.processed_rows)
        ELSE IF c[2] = b_columns THEN JsonDumps(st.columns)
        ELSE IF c[2] = b_processed_at THEN IsoFormat(ts)
        ELSE b_completed],
   ts |-> ts]

\* the row save_file_summary builds
SummaryRow(fh, bn, st, ts) ==
  [key |-> SummaryKey(fh),
   cells |->
     [c \in {<<"metadata", b_file_hash>>, <<"metadata", b_source_file>>,
             <<"metadata", b_total_rows>>, <<"metadata", b_processed_rows>>,
             <<"metadata", b_error_rows>>, <<"metadata", b_columns>>,
             <<"metadata", b_processed_at>>, <<"metadata", b_status>>} |->
        IF c[2] = b_file_hash THEN fh
        ELSE IF c[2] = b_source_file THEN bn
        ELSE IF c[2] = b_total_rows THEN Str(st.total_rows)
        ELSE IF c[2] = b_processed_rows THEN Str(st.processed_rows)
        ELSE IF c[2] = b_error_rows THEN Str(st.error_rows)
        ELSE IF c[2] = b_columns THEN JsonDumps(st.columns)
        ELSE IF c[2] = b_processed_at THEN IsoFormat(ts)
        ELSE b_completed],
   ts |-> ts]

(***************************************************************************)
(* Initial states.                                                         *)
(***************************************************************************)
\* one invocation, any content
Init ==
  /\ store = EmptyMap
  /\ clock = 1
  /\ \E c \in Contents : content = [p \in Procs |-> IF p = 1 THEN c ELSE <<>>]
  /\ pc = [p \in Procs |-> IF p = 1 THEN "ready" ELSE "idle"]
  /\ file_hash = [p \in Procs |-> HashA]
  /\ blob_name = [p \in Procs |-> BlobA]
  /\ timestamp = [p \in Procs |-> 0]
  /\ row_num = [p \in Procs |-> 0]
  /\ stats = [p \in Procs |-> ZeroStats]
  /\ rows_batch = [p \in Procs |-> <<>>]
  /\ result = [p \in Procs |-> "none"]
  /\ log = [p \in Procs |-> <<>>]
  /\ rerun = [p \in Procs |-> FALSE]
  /\ prev = [p \in Procs |-> NoPrev]
  /\ probe = NoProbe

(***************************************************************************)
(* process_csv_content, one action per step between store writes.          *)
(***************************************************************************)
\* from the call to the start of the row loop
Start(p) ==
  /\ pc[p] = "ready"
  /\ timestamp' = [timestamp EXCEPT ![p] = clock]
  /\ clock' = clock + 1
  /\ IF Len(Fieldnames(content[p])) = 0
     THEN /\ pc' = [pc EXCEPT ![p] = "raised"]
          /\ result' = [result EXCEPT ![p] = NoHeadersError]
          /\ UNCHANGED stats
     ELSE /\ pc' = [pc EXCEPT ![p] = "loop"]
          /\ stats' = [stats EXCEPT ![p] = InitStats(Columns(Fieldnames(content[p])))]
          /\ UNCHANGED result
  /\ UNCHANGED <<store, content, file_hash, blob_name, row_num, rows_batch, log,
                 rerun, prev, probe>>

\* one iteration of the row loop
ProcessRow(p) ==
  /\ pc[p] = "loop"
  /\ ~LoopFinished(p)
  /\ LET n == row_num[p] + 1
         rec == content[p][n + 1]
         fieldnames == Fieldnames(content[p])
         counted == [stats[p] EXCEPT !.total_rows = @ + 1]
         row == EncodeRow(fieldnames, rec, n, file_hash[p], blob_name[p], timestamp[p])
         batch == Append(rows_batch[p], row)
         processed == [counted EXCEPT !.processed_rows = @ + 1]
     IN  /\ row_num' = [row_num EXCEPT ![p] = n]
         /\ IF RowThrows(DictRow(fieldnames, rec))
            THEN /\ stats' = [stats EXCEPT ![p] = OnRowError(counted)]
                 /\ UNCHANGED <<store, rows_batch, log>>
            ELSE IF FlushDue(batch)
            THEN \/ /\ store' = MutateRows(store, batch)
                    /\ stats' = [stats EXCEPT ![p] =
                                   [processed EXCEPT !.batches_written = @ + 1]]
                    /\ rows_batch' = [rows_batch EXCEPT ![p] = <<>>]
                    /\ log' = [log EXCEPT ![p] = Append(@, LogEntry("batch", batch, TRUE))]
                 \/ /\ stats' = [stats EXCEPT ![p] = OnRowError(processed)]
                    /\ rows_batch' = [rows_batch EXCEPT ![p] = batch]
                    /\ log' = [log EXCEPT ![p] = Append(@, LogEntry("batch", batch, FALSE))]
                    /\ UNCHANGED store
            ELSE /\ stats' = [stats EXCEPT ![p] = processed]
                 /\ rows_batch' = [rows_batch EXCEPT ![p] = batch]
                 /\ UNCHANGED <<store, log>>
  /\ UNCHANGED <<clock, pc, content, file_hash, blob_name, timestamp, result,
                 rerun, prev, probe>>

\* the final flush after the loop
FinalFlush(p) ==
  /\ pc[p] = "loop"
  /\ LoopFinished(p)
  /\ IF Len(rows_batch[p]) > 0
     THEN \/ /\ store' = MutateRows(store, rows_batch[p])
             /\ stats' = [stats EXCEPT ![p].batches_written = @ + 1]
             /\ log' = [log EXCEPT ![p] =
                          Append(@, LogEntry("batch", rows_batch[p], TRUE))]
             /\ pc' = [pc EXCEPT ![p] = "summary"]
             /\ UNCHANGED result
          \/ /\ log' = [log EXCEPT ![p] =
                          Append(@, LogEntry("batch", rows_batch[p], FALSE))]
             /\ pc' = [pc EXCEPT ![p] = "raised"]
             /\ result' = [result EXCEPT ![p] = WriteError]
             /\ UNCHANGED <<store, stats>>
     ELSE /\ pc' = [pc EXCEPT ![p] = "summary"]
          /\ UNCHANGED <<store, stats, log, result>>
  /\ UNCHANGED <<clock, content, file_hash, blob_name, timestamp, row_num,
                 rows_batch, rerun, prev, probe>>

\* save_file_summary and the return of the stats
SaveSummary(p) ==
  /\ pc[p] = "summary"
  /\ LET row == SummaryRow(file_hash[p], blob_name[p], stats[p], timestamp[p])
     IN  \/ /\ store' = WriteRow(store, row)
            /\ log' = [log EXCEPT ![p] = Append(@, LogEntry("summary", <<row>>, TRUE))]
            /\ pc' = [pc EXCEPT ![p] = "done"]
            /\ result' = [result EXCEPT ![p] = "stats"]
         \/ /\ log' = [log EXCEPT ![p] = Append(@, LogEntry("summary", <<row>>, FALSE))]
            /\ pc' = [pc EXCEPT ![p] = "raised"]
            /\ result' = [result EXCEPT ![p] = WriteError]
            /\ UNCHANGED store
  /\ UNCHANGED <<clock, content, file_hash, blob_name, timestamp, row_num, stats,
                 rows_batch, rerun, prev, probe>>

\* the same file is ingested again (a retry or a manual reprocessing)
Reingest(p) ==
  /\ pc[p] \in {"done", "raised"}
  /\ ~rerun[p]
  /\ rerun' = [rerun EXCEPT ![p] = TRUE]
  /\ prev' = [prev EXCEPT ![p] =
                [result |-> result[p], store |-> store, keys |-> KeysWritten(log[p]),
                 stats |-> stats[p], timestamp |-> timestamp[p],
                 failures |-> AnyFailure(log[p])]]
  /\ pc' = [pc EXCEPT ![p] = "ready"]
  /\ row_num' = [row_num EXCEPT ![p] = 0]
  /\ stats' = [stats EXCEPT ![p] = ZeroStats]
  /\ rows_batch' = [rows_batch EXCEPT ![p] = <<>>]
  /\ result' = [result EXCEPT ![p] = "none"]
  /\ log' = [log EXCEPT ![p] = <<>>]
  /\ UNCHANGED <<store, clock, content, file_hash, blob_name, timestamp, probe>>

Next ==
  \E p \in Procs :
    \/ Start(p)
    \/ ProcessRow(p)
    \/ FinalFlush(p)
    \/ SaveSummary(p)
    \/ Reingest(p)

Spec == Init /\ [][Next]_vars

(***************************************************************************)
(* Two invocations on different files, interleaved at their store writes.  *)
(***************************************************************************)
ConcRows == 3

ConcContents ==
  {<<>>} \cup {<<Header>> \o rows : rows \in SeqsUpTo({RecFull, RecExtra}, ConcRows)}

InitConc ==
  /\ store = EmptyMap
  /\ clock = 1
  /\ content \in [Procs -> ConcContents]
  /\ pc = [p \in Procs |-> "ready"]
  /\ file_hash = [p \in Procs |-> IF p = 1 THEN HashA ELSE HashB]
  /\ blob_name = [p \in Procs |-> IF p = 1 THEN BlobA ELSE BlobB]
  /\ timestamp = [p \in Procs |-> 0]
  /\ row_num = [p \in Procs |-> 0]
  /\ stats = [p \in Procs |-> ZeroStats]
  /\ rows_batch = [p \in Procs |-> <<>>]
  /\ result = [p \in Procs |-> "none"]
  /\ log = [p \in Procs |-> <<>>]
  /\ rerun = [p \in Procs |-> FALSE]
  /\ prev = [p \in Procs |-> NoPrev]
  /\ probe = NoProbe

NextConc ==
  \E p \in Procs :
    \/ Start(p)
    \/ ProcessRow(p)
    \/ FinalFlush(p)
    \/ SaveSummary(p)

SpecConc == InitConc /\ [][NextConc]_vars

(***************************************************************************)
(* Key derivation on its own: a pair of ordinals, then their row keys.     *)
(***************************************************************************)
Ordinals == (1..MaxOrdinal) \cup {99, 100, 101, 999, 1000, 99999, 100000, 999999, 1000000}

InitKey ==
  /\ store = EmptyMap
  /\ clock = 1
  /\ content = [p \in Procs |-> <<>>]
  /\ pc = [p \in Procs |-> "idle"]
  /\ file_hash \in {[p \in Procs |-> HashA], [p \in Procs |-> HashB]}
  /\ blob_name = [p \in Procs |-> BlobA]
  /\ timestamp = [p \in Procs |-> 0]
  /\ row_num = [p \in Procs |-> 0]
  /\ stats = [p \in Procs |-> ZeroStats]
  /\ rows_batch = [p \in Procs |-> <<>>]
  /\ result = [p \in Procs |-> "none"]
  /\ log = [p \in Procs |-> <<>>]
  /\ rerun = [p \in Procs |-> FALSE]
  /\ prev = [p \in Procs |-> NoPrev]
  /\ \E m \in Ordinals, n \in Ordinals :
       probe = [m |-> m, n |-> n, key_m |-> <<>>, key_n |-> <<>>, derived |-> FALSE]

DeriveKeys ==
  /\ ~probe.derived
  /\ probe' = [probe EXCEPT !.key_m = generate_row_key(file_hash[1], probe.m),
                            !.key_n = generate_row_key(file_hash[1], probe.n),
                            !.derived = TRUE]
  /\ UNCHANGED <<store, clock, pc, content, file_hash, blob_name, timestamp, row_num,
                 stats, rows_batch, result, log, rerun, prev>>

NextKey == DeriveKeys

SpecKey == InitKey /\ [][NextKey]_vars

(***************************************************************************)
(* Vocabulary of the properties.                                           *)
(***************************************************************************)
Started(p) == pc[p] \notin {"idle", "ready"}

\* the data rows the loop sees: all of them, up to the row cap
RowsSeen(c) == IF Len(c) - 1 > MAX_ROWS THEN MAX_ROWS ELSE Len(c) - 1

\* R: the ordinals of the data rows with more fields than the header has
ThrowingRows(c) == {i \in 1..RowsSeen(c) : Len(c[i + 1]) > Len(c[1])}

GoodRows(c) == (1..RowsSeen(c)) \ ThrowingRows(c)

BatchEntries(l) == SelectSeq(l, LAMBDA e : e.kind = "batch")

SummaryEntries(l) == SelectSeq(l, LAMBDA e : e.kind = "summary")

Cell(k, family, qualifier) == store[k][<<family, qualifier>>].v

HasCell(k, family, qualifier) == <<family, qualifier>> \in DOMAIN store[k]

(***************************************************************************)
(* C1.  A failed batch write, whether a threshold flush inside the loop or *)
(* the final flush, ends the run there: the failed write is the last thing *)
(* the run did, the run has raised the write error, no summary row was     *)
(* written and the failure was not counted as a row error.                 *)
(***************************************************************************)
C1_BatchWriteFailureIsFatal ==
  \A p \in Procs :
    \A i \in 1..Len(log[p]) :
      (log[p][i].kind = "batch" /\ ~log[p][i].ok) =>
        /\ i = Len(log[p])
        /\ pc[p] = "raised"
        /\ result[p] = WriteError
        /\ stats[p].error_rows = Cardinality({j \in ThrowingRows(content[p]) : j <= row_num[p]})

(***************************************************************************)
(* C2.  With a header and every store write succeeding, the run does not   *)
(* fail, and once it has returned: every row outside R is stored under the *)
(* key of its own ordinal with its own fields, no row of R is stored,      *)
(* error_rows = |R|, processed_rows = total_rows - |R|, and the summary    *)
(* row carries those counts.                                               *)
(***************************************************************************)
C2_RowErrorsAreSkippedAndCounted ==
  \A p \in Procs :
    (Started(p) /\ Len(content[p]) > 0 /\ ~AnyFailure(log[p])) =>
      /\ pc[p] # "raised"
      /\ pc[p] = "done" =>
           LET c == content[p]
               R == ThrowingRows(c)
               sk == SummaryKey(file_hash[p])
           IN  /\ result[p] = "stats"
               /\ KeysWritten(BatchEntries(log[p])) =
                    {generate_row_key(file_hash[p], i) : i \in GoodRows(c)}
               /\ \A i \in GoodRows(c) :
                    LET k == generate_row_key(file_hash[p], i)
                    IN  /\ k \in DOMAIN store
                        /\ Cell(k, "metadata", b_row_number) = Str(i)
                        /\ Cell(k, "data", sanitize_column_name(c[1][1])) = c[i + 1][1]
               /\ \A i \in R : generate_row_key(file_hash[p], i) \notin DOMAIN store
               /\ stats[p].total_rows = RowsSeen(c)
               /\ stats[p].error_rows = Cardinality(R)
               /\ stats[p].processed_rows = stats[p].total_rows - Cardinality(R)
               /\ sk \in DOMAIN store
               /\ Cell(sk, "metadata", b_total_rows) = Str(RowsSeen(c))
               /\ Cell(sk, "metadata", b_processed_rows) = Str(RowsSeen(c) - Cardinality(R))
               /\ Cell(sk, "metadata", b_error_rows) = Str(Cardinality(R))

\* row 2 of three throws, rows 1 and 3 are stored, the stats are returned
C2_Witness ==
  /\ content[1] = <<Header, RecFull, RecExtra, RecFull>>
  /\ pc[1] = "done"
  /\ ~AnyFailure(log[1])
  /\ stats[1].error_rows = 1
  /\ generate_row_key(file_hash[1], 3) \in DOMAIN store
  /\ generate_row_key(file_hash[1], 2) \notin DOMAIN store

(***************************************************************************)
(* C3.  As claimed: after a second completed run of the same content at a  *)
(* later time, the run has written the same keys as the first and every    *)
(* stored cell reads the same value as after the first run.                *)
(***************************************************************************)
SecondRunDone(p) ==
  /\ rerun[p]
  /\ pc[p] = "done"
  /\ prev[p].result = "stats"
  /\ timestamp[p] # prev[p].timestamp

SameCellValue(p, k, c) ==
  /\ c \in DOMAIN prev[p].store[k]
  /\ store[k][c].v = prev[p].store[k][c].v

FieldEmptyOrMissing(rec, j) == j > Len(rec) \/ Len(rec[j]) = 0

C4_EmptyAndMissingFieldsOmitted ==
  \A p \in Procs :
    pc[p] = "done" =>
      \A i \in GoodRows(content[p]) :
        \A j \in 1..Len(content[p][1]) :
          FieldEmptyOrMissing(content[p][i + 1], j) =>
            ~HasCell(generate_row_key(file_hash[p], i), "data",
                     sanitize_column_name(content[p][1][j]))

(***************************************************************************)
(* C4, amended.  A stored row has a data cell exactly for the fields the   *)
(* record has, an empty field included (its cell holds the empty value);   *)
(* only a field missing from a short record gets none.  The row has its    *)
(* four metadata cells and counts as processed.  The 3-row example yields  *)
(* 3 stored rows, row 3 with an empty data:age, and a summary 3/3/0.       *)
(***************************************************************************)
MetadataQualifiers == {b_row_number, b_file_hash, b_source_file, b_processed_at}

C4_OnlyMissingFieldsOmitted ==
  \A p \in Procs :
    pc[p] = "done" =>
      LET c == content[p]
      IN  /\ \A i \in GoodRows(c) :
               LET k == generate_row_key(file_hash[p], i)
                   rec == c[i + 1]
               IN  /\ k \in DOMAIN store
                   /\ \A j \in 1..Len(c[1]) :
                        LET q == sanitize_column_name(c[1][j])
                        IN  /\ HasCell(k, "data", q) <=> j <= Len(rec)
                            /\ j <= Len(rec) => Cell(k, "data", q) = rec[j]
                   /\ \A q \in MetadataQualifiers : HasCell(k, "metadata", q)
                   /\ Cardinality({x \in DOMAIN store[k] : x[1] = "metadata"}) = 4
          /\ stats[p].processed_rows = Cardinality(GoodRows(c))
          /\ (c = <<Header, RecFull, RecFull, RecEmpty>> /\ ~AnyFailure(log[p])) =>
               /\ Cardinality({k \in DOMAIN store : k # SummaryKey(file_hash[p])}) = 3
               /\ Cell(SummaryKey(file_hash[p]), "metadata", b_total_rows) = <<51>>
               /\ Cell(SummaryKey(file_hash[p]), "metadata", b_processed_rows) = <<51>>
               /\ Cell(SummaryKey(file_hash[p]), "metadata", b_error_rows) = <<48>>

\* the 3-row example is stored, its row 3 with an empty data:age cell
C4_Witness ==
  /\ content[1] = <<Header, RecFull, RecFull, RecEmpty>>
  /\ pc[1] = "done"
  /\ ~AnyFailure(log[1])
  /\ HasCell(generate_row_key(file_hash[1], 3), "data", <<97, 103, 101>>)
  /\ Cell(generate_row_key(file_hash[1], 3), "data", <<97, 103, 101>>) = <<>>

(***************************************************************************)
(* C5.  For N <= MAX_ROWS data rows, none failing, every write succeeding: *)
(* the run makes exactly ceil(N / BATCH_SIZE) batch writes and reports     *)
(* that number; every batch but the last holds exactly BATCH_SIZE rows,    *)
(* the last holds at least one, and the batches in order hold the rows     *)
(* 1..N once each.                                                         *)
(***************************************************************************)
CeilDiv(a, b) == (a + b - 1) \div b

RECURSIVE ConcatKeys(_)
ConcatKeys(entries) ==
  IF Len(entries) = 0 THEN <<>>
  ELSE BatchKeys(Head(entries).rows) \o ConcatKeys(Tail(entries))

CleanRun(p) ==
  /\ pc[p] \in {"summary", "done"}
  /\ ~AnyFailure(log[p])
  /\ ThrowingRows(content[p]) = {}
  /\ Len(content[p]) - 1 <= MAX_ROWS

C5_BatchesAreCeilOfRows ==
  \A p \in Procs :
    CleanRun(p) =>
      LET N == Len(content[p]) - 1
          B == BatchEntries(log[p])
      IN  /\ Len(B) = CeilDiv(N, BATCH_SIZE)
          /\ stats[p].batches_written = CeilDiv(N, BATCH_SIZE)
          /\ \A i \in 1..Len(B) :
               /\ i < Len(B) => Len(B[i].rows) = BATCH_SIZE
               /\ Len(B[i].rows) >= 1
               /\ Len(B[i].rows) <= BATCH_SIZE
          /\ ConcatKeys(B) = [i \in 1..N |-> generate_row_key(file_hash[p], i)]

\* one row more than the threshold: a full batch, then a batch of one
C5_Witness ==
  /\ CleanRun(1)
  /\ Len(content[1]) - 1 = BATCH_SIZE + 1
  /\ Len(BatchEntries(log[1])) = 2
  /\ Len(BatchEntries(log[1])[1].rows) = BATCH_SIZE
  /\ Len(BatchEntries(log[1])[2].rows) = 1

(***************************************************************************)
(* C6.  An empty content makes the run raise the no-headers error before   *)
(* any write: the run attempts no batch write and no summary write, the    *)
(* store stays as it was and no stats are returned.                        *)
(***************************************************************************)
C6_NoHeaderFailsBeforeAnyWrite ==
  \A p \in Procs :
    (Started(p) /\ Len(content[p]) = 0) =>
      /\ pc[p] = "raised"
      /\ result[p] = NoHeadersError
      /\ log[p] = <<>>
      /\ store = EmptyMap

\* the run on the empty content has raised
C6_Witness ==
  /\ Len(content[1]) = 0
  /\ pc[1] = "raised"
  /\ result[1] = NoHeadersError

(***************************************************************************)
(* C7.  A run that returns stats has written the summary row exactly once, *)
(* as its last write, with status completed and the counts of the returned *)
(* stats; a run that ended with an error has not written it.               *)
(***************************************************************************)
C7_SummaryOnceAfterLastBatch ==
  \A p \in Procs :
    LET S == SummaryEntries(log[p])
        sk == SummaryKey(file_hash[p])
    IN  /\ Len(S) <= 1
        /\ \A i \in 1..Len(log[p]) : log[p][i].kind = "summary" => i = Len(log[p])
        /\ result[p] = "stats" =>
             /\ Len(S) = 1
             /\ S[1].ok
             /\ BatchKeys(S[1].rows) = <<sk>>
             /\ sk \in DOMAIN store
             /\ Cell(sk, "metadata", b_status) = b_completed
             /\ Cell(sk, "metadata", b_total_rows) = Str(stats[p].total_rows)
             /\ Cell(sk, "metadata", b_processed_rows) = Str(stats[p].processed_rows)
             /\ Cell(sk, "metadata", b_error_rows) = Str(stats[p].error_rows)
        /\ pc[p] = "raised" => sk \notin KeysWritten(log[p])

\* stats were returned after an error row, a batch write and the summary
C7_Witness ==
  /\ result[1] = "stats"
  /\ stats[1].error_rows = 1
  /\ stats[1].processed_rows = BATCH_SIZE
  /\ Len(log[1]) = 2
  /\ log[1][1].kind = "batch"
  /\ log[1][2].kind = "summary"

(***************************************************************************)
(* C8.  For one file hash and ordinals m, n, the row key of m sorts before *)
(* the row key of n exactly when m < n, and the keys are equal only when   *)
(* m = n.                                                                  *)
(***************************************************************************)
C8_KeyOrderIsRowOrder ==
  probe.derived =>
    /\ LexLess(probe.key_m, probe.key_n) <=> probe.m < probe.n
    /\ probe.key_m = probe.key_n <=> probe.m = probe.n

\* ordinal 5 sorts before ordinal 10
C8_Witness ==
  /\ probe.derived
  /\ probe.m = 5
  /\ probe.n = 10
  /\ LexLess(probe.key_m, probe.key_n)

(***************************************************************************)
(* C9.  Two invocations on files with different file hashes, interleaved   *)
(* in any way, never hand the same key to the store; no summary key is a   *)
(* row key; and what the store holds for each file is what that            *)
(* invocation's own writes produce on an empty store.                      *)
(***************************************************************************)
RowKeysOf(p) == KeysAttempted(BatchEntries(log[p]))

SummaryKeysOf(p) == KeysAttempted(SummaryEntries(log[p]))

\* the successful writes of one run, applied in order to a store
RECURSIVE Replay(_, _)
Replay(st, l) ==
  IF Len(l) = 0 THEN st
  ELSE Replay(IF Head(l).ok THEN MutateRows(st, Head(l).rows) ELSE st, Tail(l))

C9_DifferentFilesNeverCollide ==
  \A p \in Procs, q \in Procs :
    /\ SummaryKeysOf(p) \cap RowKeysOf(q) = {}
    /\ (p # q /\ file_hash[p] # file_hash[q]) =>
         /\ KeysAttempted(log[p]) \cap KeysAttempted(log[q]) = {}
         /\ LET alone == Replay(EmptyMap, log[p])
            IN  /\ DOMAIN alone \subseteq DOMAIN store
                /\ \A k \in DOMAIN alone : store[k] = alone[k]
    /\ DOMAIN store = UNION {DOMAIN Replay(EmptyMap, log[r]) : r \in Procs}

\* both invocations are in their row loops and both have written a batch
C9_Witness ==
  /\ file_hash[1] # file_hash[2]
  /\ pc[1] = "loop"
  /\ pc[2] = "loop"
  /\ KeysWritten(log[1]) # {}
  /\ KeysWritten(log[2]) # {}

(***************************************************************************)
(* C10.  The batch buffer stays below the threshold: between loop          *)
(* iterations it holds fewer than BATCH_SIZE rows, also after a failed     *)
(* write, and no batch handed to the store holds more than BATCH_SIZE      *)
(* rows.                                                                   *)
(***************************************************************************)
C10_BufferBelowThreshold ==
  \A p \in Procs :
    /\ Len(rows_batch[p]) < BATCH_SIZE
    /\ \A i \in 1..Len(log[p]) :
         log[p][i].kind = "batch" => Len(log[p][i].rows) <= BATCH_SIZE

(***************************************************************************)
(* C11.  The counters partition the rows seen: between loop iterations and *)
(* in the returned stats, total_rows = processed_rows + error_rows,        *)
(* whatever rows fail to encode and whatever store writes fail, and no row *)
(* is counted both as processed and as an error.                           *)
(***************************************************************************)
C11_CountersPartitionRows ==
  \A p \in Procs :
    stats[p].total_rows = stats[p].processed_rows + stats[p].error_rows

====
